---- MODULE Spec2Model ----
(***************************************************************************)
(* Model of the SSE streaming hub of github-mcp: StreamHandler (registry,  *)
(* HandleSSE, sendEvent, heartbeat loop, Stop) and MCPStreamer             *)
(* (classification and formatting of JSON-RPC messages).                   *)
(* Each goroutine is a task; every step between two synchronisation        *)
(* points of the Go code is one action.                                    *)
(***************************************************************************)
EXTENDS Integers, Sequences, FiniteSets, TLC

\* A crashed process (an unrecovered panic) takes no step: every action is
\* guarded by ~crashed.
\* ------------------------------------------------------------------ bounds
MaxConns == 2       \* HandleSSE calls (one connection each)
MaxCallers == 1     \* concurrent callers of the delivery boundary
MaxTicks == 1       \* heartbeat ticker firings
MaxClock == 1       \* largest clock reading (readings are 0..MaxClock)
MaxMessages == 3    \* messages one Handler is given, one after the other

\* getCurrentTimestamp's placeholder value
PlaceholderTimestamp == 1640995200

Conns == 1..MaxConns
NoConn == 0
Ids == 0..MaxClock
Callers == {<<"call", k>> : k \in 1..MaxCallers}
HTask(c) == <<"sse", c>>
HTasks == {HTask(c) : c \in Conns}
HB == <<"heartbeat", 0>>
STOP == <<"stop", 0>>
Senders == HTasks \cup Callers \cup {HB}
Tasks == Senders \cup {STOP}

VARIABLES
    clock,      \* last reading of time.Now()
    clients,    \* sh.clients: id -> connection (NoConn = no entry)
    connId,     \* ClientConnection.ID of each created connection (-1 = not created)
    closedBy,   \* ClientConnection.Done: "open", or who closed it
    lastSeen,   \* ClientConnection.LastSeen
    sink,       \* what each connection's Writer has been handed, in order
    ctxDone,    \* r.Context().Done() of each request
    pc,         \* position of each task
    iter,       \* connections of a task's snapshot it has not visited yet
    cur,        \* the connection a task is visiting (NoConn = none)
    evt,        \* <<eventType, data>> a sender is delivering
    call,       \* a caller's operation, message, target id and return value
    stopCh,     \* sh.stopCh is closed
    wg,         \* sh.wg counter
    mux,        \* holder of sh.clientsMux's exclusive lock ("free" when none)
    ticks,      \* ticker firings consumed
    panicked,   \* <<task, cause>> of every panic
    crashed,    \* the process died of an unrecovered panic
    initialized \* Handler.initialized

vars == <<clock, clients, connId, closedBy, lastSeen, sink, ctxDone, pc, iter,
          cur, evt, call, stopCh, wg, mux, ticks, panicked, crashed, initialized>>

\* ----------------------------------------------------------------- helpers
Range(f) == {f[x] : x \in DOMAIN f}

\* connections that have an entry in sh.clients
Registered == {clients[i] : i \in Ids} \ {NoConn}

\* len(sh.clients)
GetConnectedClients == Cardinality({i \in Ids : clients[i] # NoConn})

\* <-client.Done is ready
Closed(c) == closedBy[c] # "open"

NoData == [none |-> TRUE]
NoEvt == <<"", NoData>>
NoMsg == [method |-> FALSE, id |-> FALSE, result |-> FALSE, error |-> FALSE,
          marshal |-> TRUE]
NoCall == [op |-> "", msg |-> NoMsg, target |-> 0, ret |-> "none"]


\* data handed to BroadcastMessage/SendToClient directly: a value json.Marshal
\* accepts, or one it rejects
Payload == [raw |-> "payload"]
Unmarshalable == [raw |-> "unmarshalable"]
RawData == {Payload, Unmarshalable}

\* a JSON-RPC error code handed to StreamError
ErrorCodeInternalError == 0 - 32603

\* notification names and tool names: empty or not
MethodNames == {"", "notifications/message"}
ToolNames == {"", "list_issues"}

\* ------------------------------------------------- JSON-RPC messages (pure)
\* A message is the presence of each classifying field, plus whether
\* json.Marshal accepts its params/result values.
Messages == [method : BOOLEAN, id : BOOLEAN, result : BOOLEAN, error : BOOLEAN,
             marshal : BOOLEAN]

IsRequest(m) == m.method /\ m.id
IsResponse(m) == ~m.method /\ m.id /\ (m.result \/ m.error)
IsNotification(m) == m.method /\ ~m.id
IsError(m) == m.error

NewRequest == [method |-> TRUE, id |-> TRUE, result |-> FALSE, error |-> FALSE,
               marshal |-> TRUE]
NewResponse == [method |-> FALSE, id |-> TRUE, result |-> TRUE, error |-> FALSE,
                marshal |-> TRUE]
NewErrorResponse == [method |-> FALSE, id |-> TRUE, result |-> FALSE, error |-> TRUE,
                     marshal |-> TRUE]
NewNotification == [method |-> TRUE, id |-> FALSE, result |-> FALSE, error |-> FALSE,
                    marshal |-> TRUE]

\* NewNotification(method, params): Method is set iff the name is not empty;
\* json.Marshal accepts the message iff it accepts params
NewNotificationFor(method, params) ==
    [method |-> method # "", id |-> FALSE, result |-> FALSE, error |-> FALSE,
     marshal |-> params # Unmarshalable]

\* getEventType without its last test: whatever is neither a notification nor
\* a response is taken for a request
getEventType_noFallback(m) ==
    IF IsNotification(m) THEN "mcp_notification"
    ELSE IF IsResponse(m) THEN (IF IsError(m) THEN "mcp_error" ELSE "mcp_response")
    ELSE "mcp_request"

\* getEventType without the IsError test: an error response is taken for a
\* success response
getEventType_noError(m) ==
    IF IsNotification(m) THEN "mcp_notification"
    ELSE IF IsResponse(m) THEN "mcp_response"
    ELSE IF IsRequest(m) THEN "mcp_request"
    ELSE "mcp_message"

getEventType(m) ==
    IF IsNotification(m) THEN "mcp_notification"
    ELSE IF IsResponse(m) THEN (IF IsError(m) THEN "mcp_error" ELSE "mcp_response")
    ELSE IF IsRequest(m) THEN "mcp_request"
    ELSE "mcp_message"

\* keys of the map json.Unmarshal(json.Marshal(message)) yields (omitempty)
MessageMap(m) == {"jsonrpc"} \cup (IF m.id THEN {"id"} ELSE {})
                             \cup (IF m.method THEN {"method"} ELSE {})
                             \cup (IF m.result THEN {"result"} ELSE {})
                             \cup (IF m.error THEN {"error"} ELSE {})

\* formatMessageForSSE without its IsResponse branch: a response gets no
\* message_type
formatMessageForSSE_noResponseType(m) ==
    IF ~m.marshal THEN [err |-> TRUE, data |-> NoData]
    ELSE LET base == [mcp_message |-> MessageMap(m), timestamp |-> PlaceholderTimestamp]
         IN [err |-> FALSE,
             data |-> IF IsRequest(m)
                        THEN [mcp_message |-> base.mcp_message, timestamp |-> base.timestamp,
                              message_type |-> "request"]
                      ELSE IF IsNotification(m)
                        THEN [mcp_message |-> base.mcp_message, timestamp |-> base.timestamp,
                              message_type |-> "notification"]
                      ELSE base]

\* formatMessageForSSE: [err |-> TRUE] or [err |-> FALSE, data |-> eventData]
formatMessageForSSE(m) ==
    IF ~m.marshal THEN [err |-> TRUE, data |-> NoData]
    ELSE LET base == [mcp_message |-> MessageMap(m), timestamp |-> PlaceholderTimestamp]
         IN [err |-> FALSE,
             data |-> IF IsRequest(m)
                        THEN [mcp_message |-> base.mcp_message, timestamp |-> base.timestamp,
                              message_type |-> "request"]
                      ELSE IF IsResponse(m)
                        THEN [mcp_message |-> base.mcp_message, timestamp |-> base.timestamp,
                              message_type |-> "response"]
                      ELSE IF IsNotification(m)
                        THEN [mcp_message |-> base.mcp_message, timestamp |-> base.timestamp,
                              message_type |-> "notification"]
                      ELSE base]

\* json.Marshal accepts data: neither data itself nor a value it holds under
\* "data" is one json.Marshal rejects
Marshals(data) ==
    /\ data # Unmarshalable
    /\ ("data" \in DOMAIN data) => data.data # Unmarshalable

\* formatSSEEvent handing data on without the substitution of an error payload
formatSSEEvent_noSubstitute(eventType, data) ==
    [type |-> eventType, data |-> data]

\* formatSSEEvent: the frame's event line and data line
formatSSEEvent(eventType, data) ==
    [type |-> eventType,
     data |-> IF Marshals(data) THEN data ELSE [error |-> "failed to marshal data"]]

ConnectedEvt(id) == <<"connected", [clientId |-> id, message |-> "Connected to MCP stream"]>>
HeartbeatEvt == <<"heartbeat", [timestamp |-> clock]>>

\* -------------------------------------------------------------------- Init
Init ==
    /\ clock = 0
    /\ clients = [i \in Ids |-> NoConn]
    /\ connId = [c \in Conns |-> -1]
    /\ closedBy = [c \in Conns |-> "open"]
    /\ lastSeen = [c \in Conns |-> -1]
    /\ sink = [c \in Conns |-> << >>]
    /\ ctxDone = [c \in Conns |-> FALSE]
    /\ pc = [t \in Tasks |-> IF t = HB THEN "off" ELSE "idle"]
    /\ iter = [t \in Tasks |-> {}]
    /\ cur = [t \in Tasks |-> NoConn]
    /\ evt = [t \in Senders |-> NoEvt]
    /\ call = [t \in Callers |-> NoCall]
    /\ stopCh = FALSE
    /\ wg = 0
    /\ mux = "free"
    /\ ticks = 0
    /\ panicked = {}
    /\ crashed = FALSE
    /\ initialized = FALSE

\* ---------------------------------------------------------------- sendEvent
\* the operations whose delivery loop runs inside StreamMessage
ViaStreamMessage == {"StreamMessage", "StreamNotification", "StreamToolProgress",
                     "handleCallTool"}

\* where a sender resumes once its delivery loop is over
AfterLoop(t) ==
    IF t \in HTasks THEN "wait"
    ELSE IF t = HB THEN "loop"
    ELSE IF call[t].op \in ViaStreamMessage THEN "sm_log"
    ELSE "done"

\* a caller whose operation ends with its delivery loop has returned nil
CallAfterLoop(t) ==
    IF t \in Callers /\ AfterLoop(t) = "done"
    THEN [call EXCEPT ![t].ret = "nil"] ELSE call

\* Return as a loop that ends at the first connection it has dealt with
Return_firstOnly(t) ==
    /\ cur' = [cur EXCEPT ![t] = NoConn]
    /\ iter' = [iter EXCEPT ![t] = {}]
    /\ pc' = [pc EXCEPT ![t] = AfterLoop(t)]
    /\ evt' = evt
    /\ call' = CallAfterLoop(t)

\* the range loop of a task moves on: to any connection of the snapshot not yet
\* visited (Go leaves the order of a map range open), or past the loop
Return(t) ==
    IF iter[t] # {}
    THEN /\ \E c \in iter[t] : /\ cur' = [cur EXCEPT ![t] = c]
                               /\ iter' = [iter EXCEPT ![t] = @ \ {c}]
         /\ pc' = [pc EXCEPT ![t] = "check"]
         /\ evt' = IF t = HB THEN [evt EXCEPT ![t] = HeartbeatEvt] ELSE evt
         /\ call' = call
    ELSE /\ cur' = [cur EXCEPT ![t] = NoConn]
         /\ iter' = iter
         /\ pc' = [pc EXCEPT ![t] = AfterLoop(t)]
         /\ evt' = evt
         /\ call' = CallAfterLoop(t)

\* select { case <-client.Done: return; default: }
sendEvent_check(t) ==
    /\ ~crashed
    /\ pc[t] = "check"
    /\ IF Closed(cur[t])
       THEN Return(t)
       ELSE /\ pc' = [pc EXCEPT ![t] = "write"]
            /\ UNCHANGED <<iter, cur, evt, call>>
    /\ UNCHANGED <<initialized, clock, clients, connId, closedBy, lastSeen, sink, ctxDone, stopCh,
                   wg, mux, ticks, panicked, crashed>>

\* formatSSEEvent is done and fmt.Fprint(client.Writer, event) is entered
sendEvent_write(t) ==
    /\ ~crashed
    /\ pc[t] = "write"
    /\ pc' = [pc EXCEPT ![t] = "inwrite"]
    /\ UNCHANGED <<initialized, clock, clients, connId, closedBy, lastSeen, sink, ctxDone, iter,
                   cur, evt, call, stopCh, wg, mux, ticks, panicked, crashed>>

\* a panic ends the task: its deferred calls run, and the process dies unless
\* the goroutine's caller recovers (the heartbeat goroutine has no caller)
Panic(t, cause) ==
    /\ panicked' = panicked \cup {<<t, cause>>}
    /\ iter' = [iter EXCEPT ![t] = {}]
    /\ cur' = [cur EXCEPT ![t] = NoConn]
    /\ pc' = [pc EXCEPT ![t] = IF t \in HTasks THEN "remove"
                               ELSE IF t = HB THEN "exited" ELSE "panicked"]
    /\ wg' = IF t = HB THEN wg - 1 ELSE wg
    /\ mux' = IF t = STOP THEN "free" ELSE mux
    /\ \E dies \in BOOLEAN : crashed' = (dies \/ t = HB)

\* Fprint putting the frame in front of what the sink already holds
Fprint_inFront(written, frame) == <<frame>> \o written

\* fmt.Fprint(client.Writer, event): the frame follows what the sink holds
Fprint(written, frame) == Append(written, frame)

\* Fprint returns. Success: Flush, LastSeen, return. Error: close(client.Done)
\* and return; closing a closed channel panics
sendEvent_written(t, ok) ==
    LET c == cur[t]
        f == formatSSEEvent(evt[t][1], evt[t][2]) IN
    /\ ~crashed
    /\ pc[t] = "inwrite"
    /\ sink' = [sink EXCEPT ![c] = Fprint(@, [type |-> f.type, data |-> f.data,
                                               by |-> t, ok |-> ok])]
    /\ IF ok
       THEN /\ lastSeen' = [lastSeen EXCEPT ![c] = clock]
            /\ Return(t)
            /\ UNCHANGED <<closedBy, panicked, wg, mux, crashed>>
       ELSE IF Closed(c)
       THEN /\ Panic(t, "close of closed Done")
            /\ UNCHANGED <<lastSeen, closedBy, evt, call>>
       ELSE /\ closedBy' = [closedBy EXCEPT ![c] = "write"]
            /\ Return(t)
            /\ UNCHANGED <<lastSeen, panicked, wg, mux, crashed>>
    /\ UNCHANGED <<initialized, clock, clients, connId, ctxDone, stopCh, ticks>>

\* ---------------------------------------------------------------- HandleSSE
\* w.(http.Flusher) fails: "SSE not supported", nothing is registered
HandleSSE_noFlusher(c) ==
    /\ ~crashed
    /\ pc[HTask(c)] = "idle"
    /\ pc' = [pc EXCEPT ![HTask(c)] = "done"]
    /\ UNCHANGED <<initialized, clock, clients, connId, closedBy, lastSeen, sink, ctxDone, iter, cur,
                   evt, call, stopCh, wg, mux, ticks, panicked, crashed>>

\* generateClientID: "client_%d" of time.Now().UnixNano()
generateClientID(now) == now

\* HandleSSE_register without sh.addClient(client)
HandleSSE_register_noAdd(c, now) ==
    LET id == generateClientID(now) IN
    /\ ~crashed
    /\ pc[HTask(c)] = "idle"
    /\ now >= clock
    /\ mux = "free"
    /\ clock' = now
    /\ connId' = [connId EXCEPT ![c] = id]
    /\ lastSeen' = [lastSeen EXCEPT ![c] = now]
    /\ pc' = [pc EXCEPT ![HTask(c)] = "check"]
    /\ cur' = [cur EXCEPT ![HTask(c)] = c]
    /\ evt' = [evt EXCEPT ![HTask(c)] = ConnectedEvt(id)]
    /\ UNCHANGED <<initialized, clients, closedBy, sink, ctxDone, iter, call, stopCh, wg, mux, ticks,
                   panicked, crashed>>

\* headers, generateClientID (a clock reading never below an earlier one),
\* the new ClientConnection, sh.addClient(client), and the call of
\* sendEvent(client, "connected", ...)
HandleSSE_register(c, now) ==
    LET id == generateClientID(now) IN
    /\ ~crashed
    /\ pc[HTask(c)] = "idle"
    /\ now >= clock
    /\ mux = "free"
    /\ clock' = now
    /\ connId' = [connId EXCEPT ![c] = id]
    /\ lastSeen' = [lastSeen EXCEPT ![c] = now]
    /\ clients' = [clients EXCEPT ![id] = c]
    /\ pc' = [pc EXCEPT ![HTask(c)] = "check"]
    /\ cur' = [cur EXCEPT ![HTask(c)] = c]
    /\ evt' = [evt EXCEPT ![HTask(c)] = ConnectedEvt(id)]
    /\ UNCHANGED <<initialized, closedBy, sink, ctxDone, iter, call, stopCh, wg, mux, ticks,
                   panicked, crashed>>

\* select { case <-r.Context().Done(): case <-client.Done: }
HandleSSE_wait(c) ==
    /\ ~crashed
    /\ pc[HTask(c)] = "wait"
    /\ ctxDone[c] \/ Closed(c)
    /\ pc' = [pc EXCEPT ![HTask(c)] = "remove"]
    /\ UNCHANGED <<initialized, clock, clients, connId, closedBy, lastSeen, sink, ctxDone, iter, cur,
                   evt, call, stopCh, wg, mux, ticks, panicked, crashed>>

\* removeClient deleting its entry without sh.clientsMux.Lock()
removeClient_noLock(c) ==
    /\ ~crashed
    /\ pc[HTask(c)] = "remove"
    /\ clients' = [clients EXCEPT ![connId[c]] = NoConn]
    /\ pc' = [pc EXCEPT ![HTask(c)] = "done"]
    /\ UNCHANGED <<initialized, clock, connId, closedBy, lastSeen, sink, ctxDone, iter, cur, evt, call,
                   stopCh, wg, mux, ticks, panicked, crashed>>

\* the deferred sh.removeClient(clientID): delete(sh.clients, clientID)
removeClient(c) ==
    /\ ~crashed
    /\ pc[HTask(c)] = "remove"
    /\ mux = "free"
    /\ clients' = [clients EXCEPT ![connId[c]] = NoConn]
    /\ pc' = [pc EXCEPT ![HTask(c)] = "done"]
    /\ UNCHANGED <<initialized, clock, connId, closedBy, lastSeen, sink, ctxDone, iter, cur, evt, call,
                   stopCh, wg, mux, ticks, panicked, crashed>>

\* the front end reports the client gone: the request context ends. HandleSSE
\* reads the context only in its select, so an earlier end is seen there.
Context_cancel(c) ==
    /\ ~crashed
    /\ pc[HTask(c)] = "wait"
    /\ ~ctxDone[c]
    /\ ctxDone' = [ctxDone EXCEPT ![c] = TRUE]
    /\ UNCHANGED <<initialized, clock, clients, connId, closedBy, lastSeen, sink, pc, iter, cur,
                   evt, call, stopCh, wg, mux, ticks, panicked, crashed>>

\* ------------------------------------------------- MCPStreamer and delivery
\* StreamMessage is called (streamHandler is never nil once constructed)
StreamMessage_call(t, m) ==
    /\ ~crashed
    /\ pc[t] = "idle"
    /\ pc' = [pc EXCEPT ![t] = "sm_count"]
    /\ call' = [call EXCEPT ![t] = [op |-> "StreamMessage", msg |-> m, target |-> 0,
                                    ret |-> "none"]]
    /\ UNCHANGED <<initialized, clock, clients, connId, closedBy, lastSeen, sink, ctxDone, iter, cur,
                   evt, stopCh, wg, mux, ticks, panicked, crashed>>

\* StreamMessage_count without the GetConnectedClients() == 0 test
StreamMessage_count_noZeroTest(t) ==
    LET m == call[t].msg
        fm == formatMessageForSSE(m) IN
    /\ ~crashed
    /\ pc[t] = "sm_count"
    /\ mux = "free"
    /\ IF fm.err
       THEN /\ pc' = [pc EXCEPT ![t] = "done"]
            /\ call' = [call EXCEPT ![t].ret = "err"]
            /\ evt' = evt
       ELSE /\ pc' = [pc EXCEPT ![t] = "snapshot"]
            /\ evt' = [evt EXCEPT ![t] = <<getEventType(m), fm.data>>]
            /\ call' = call
    /\ UNCHANGED <<initialized, clock, clients, connId, closedBy, lastSeen, sink, ctxDone, iter, cur,
                   stopCh, wg, mux, ticks, panicked, crashed>>

\* GetConnectedClients() == 0 -> nil; formatMessageForSSE; getEventType
StreamMessage_count(t) ==
    LET m == call[t].msg
        fm == formatMessageForSSE(m) IN
    /\ ~crashed
    /\ pc[t] = "sm_count"
    /\ mux = "free"
    /\ IF GetConnectedClients = 0
       THEN /\ pc' = [pc EXCEPT ![t] = "done"]
            /\ call' = [call EXCEPT ![t].ret = "nil"]
            /\ evt' = evt
       ELSE IF fm.err
       THEN /\ pc' = [pc EXCEPT ![t] = "done"]
            /\ call' = [call EXCEPT ![t].ret = "err"]
            /\ evt' = evt
       ELSE /\ pc' = [pc EXCEPT ![t] = "snapshot"]
            /\ evt' = [evt EXCEPT ![t] = <<getEventType(m), fm.data>>]
            /\ call' = call
    /\ UNCHANGED <<initialized, clock, clients, connId, closedBy, lastSeen, sink, ctxDone, iter, cur,
                   stopCh, wg, mux, ticks, panicked, crashed>>

\* the closing Debug log of StreamMessage reads GetConnectedClients(); return nil
StreamMessage_log(t) ==
    /\ ~crashed
    /\ pc[t] = "sm_log"
    /\ mux = "free"
    /\ pc' = [pc EXCEPT ![t] = "done"]
    /\ call' = [call EXCEPT ![t].ret = "nil"]
    /\ UNCHANGED <<initialized, clock, clients, connId, closedBy, lastSeen, sink, ctxDone, iter, cur,
                   evt, stopCh, wg, mux, ticks, panicked, crashed>>

\* StreamMessageToClient up to its call of SendToClient
StreamMessageToClient_call(t, id, m) ==
    LET fm == formatMessageForSSE(m) IN
    /\ ~crashed
    /\ pc[t] = "idle"
    /\ IF fm.err
       THEN /\ pc' = [pc EXCEPT ![t] = "done"]
            /\ call' = [call EXCEPT ![t] = [op |-> "StreamMessageToClient", msg |-> m,
                                            target |-> id, ret |-> "err"]]
            /\ evt' = evt
       ELSE /\ pc' = [pc EXCEPT ![t] = "lookup"]
            /\ call' = [call EXCEPT ![t] = [op |-> "StreamMessageToClient", msg |-> m,
                                            target |-> id, ret |-> "none"]]
            /\ evt' = [evt EXCEPT ![t] = <<getEventType(m), fm.data>>]
    /\ UNCHANGED <<initialized, clock, clients, connId, closedBy, lastSeen, sink, ctxDone, iter, cur,
                   stopCh, wg, mux, ticks, panicked, crashed>>

\* BroadcastMessage called directly with an event type and data
BroadcastMessage_call(t, eventType, data) ==
    /\ ~crashed
    /\ pc[t] = "idle"
    /\ pc' = [pc EXCEPT ![t] = "snapshot"]
    /\ call' = [call EXCEPT ![t] = [op |-> "BroadcastMessage", msg |-> NoMsg,
                                    target |-> 0, ret |-> "none"]]
    /\ evt' = [evt EXCEPT ![t] = <<eventType, data>>]
    /\ UNCHANGED <<initialized, clock, clients, connId, closedBy, lastSeen, sink, ctxDone, iter, cur,
                   stopCh, wg, mux, ticks, panicked, crashed>>

\* BroadcastMessage called again by a caller whose BroadcastMessage returned
BroadcastMessage_again(t, eventType, data) ==
    /\ ~crashed
    /\ pc[t] = "done"
    /\ call[t].op = "BroadcastMessage"
    /\ evt[t][1] # eventType
    /\ pc' = [pc EXCEPT ![t] = "snapshot"]
    /\ call' = [call EXCEPT ![t].ret = "none"]
    /\ evt' = [evt EXCEPT ![t] = <<eventType, data>>]
    /\ UNCHANGED <<initialized, clock, clients, connId, closedBy, lastSeen, sink, ctxDone, iter, cur,
                   stopCh, wg, mux, ticks, panicked, crashed>>

\* SendToClient called directly
SendToClient_call(t, id, eventType, data) ==
    /\ ~crashed
    /\ pc[t] = "idle"
    /\ pc' = [pc EXCEPT ![t] = "lookup"]
    /\ call' = [call EXCEPT ![t] = [op |-> "SendToClient", msg |-> NoMsg,
                                    target |-> id, ret |-> "none"]]
    /\ evt' = [evt EXCEPT ![t] = <<eventType, data>>]
    /\ UNCHANGED <<initialized, clock, clients, connId, closedBy, lastSeen, sink, ctxDone, iter, cur,
                   stopCh, wg, mux, ticks, panicked, crashed>>

\* StreamError: BroadcastMessage("error", {code, message, data}) with no look
\* at the connected count; return nil
StreamError_call(t, code, message, data) ==
    /\ ~crashed
    /\ pc[t] = "idle"
    /\ pc' = [pc EXCEPT ![t] = "snapshot"]
    /\ call' = [call EXCEPT ![t] = [op |-> "StreamError", msg |-> NoMsg,
                                    target |-> 0, ret |-> "none"]]
    /\ evt' = [evt EXCEPT ![t] = <<"error", [code |-> code, message |-> message,
                                             data |-> data]>>]
    /\ UNCHANGED <<initialized, clock, clients, connId, closedBy, lastSeen, sink, ctxDone, iter, cur,
                   stopCh, wg, mux, ticks, panicked, crashed>>

\* StreamNotification handing its message to BroadcastMessage itself, past the
\* connected-count test of StreamMessage
StreamNotification_call_direct(t, method, params) ==
    LET m == NewNotificationFor(method, params) IN
    /\ ~crashed
    /\ pc[t] = "idle"
    /\ pc' = [pc EXCEPT ![t] = "snapshot"]
    /\ call' = [call EXCEPT ![t] = [op |-> "StreamNotification", msg |-> m,
                                    target |-> 0, ret |-> "none"]]
    /\ evt' = [evt EXCEPT ![t] = <<getEventType(m), formatMessageForSSE(m).data>>]
    /\ UNCHANGED <<initialized, clock, clients, connId, closedBy, lastSeen, sink, ctxDone, iter, cur,
                   stopCh, wg, mux, ticks, panicked, crashed>>

\* StreamNotification: StreamMessage(NewNotification(method, params))
StreamNotification_call(t, method, params) ==
    /\ ~crashed
    /\ pc[t] = "idle"
    /\ pc' = [pc EXCEPT ![t] = "sm_count"]
    /\ call' = [call EXCEPT ![t] = [op |-> "StreamNotification",
                                    msg |-> NewNotificationFor(method, params),
                                    target |-> 0, ret |-> "none"]]
    /\ UNCHANGED <<initialized, clock, clients, connId, closedBy, lastSeen, sink, ctxDone, iter, cur,
                   evt, stopCh, wg, mux, ticks, panicked, crashed>>

\* StreamToolProgress: StreamNotification("tools/progress", {tool, progress});
\* json.Marshal accepts the map iff it accepts progress
StreamToolProgress_call(t, toolName, progress) ==
    /\ ~crashed
    /\ pc[t] = "idle"
    /\ pc' = [pc EXCEPT ![t] = "sm_count"]
    /\ call' = [call EXCEPT ![t] = [op |-> "StreamToolProgress",
                                    msg |-> NewNotificationFor("tools/progress", progress),
                                    target |-> 0, ret |-> "none"]]
    /\ UNCHANGED <<initialized, clock, clients, connId, closedBy, lastSeen, sink, ctxDone, iter, cur,
                   evt, stopCh, wg, mux, ticks, panicked, crashed>>

\* ---------------------------------------------------------- handleMCPRequest
\* HTTP methods a request to /mcp/request can carry
HTTPMethods == {"GET", "POST", "PUT"}

\* what s.mcpHandler.HandleMessage gives back: an error, no response (a
\* notification), or response data
HandleMessageResults == {"error", "none", "response"}

\* the messages a POST body parses to
BodyMessages == {NewRequest, NewNotification}

\* handleMCPRequest: the message it hands to HandleMessage (NoMsg when it
\* returns before that) and what it writes back. readOk: r.Body.Read succeeds;
\* parseOk: mcp.FromJSON accepts the body, as message m.
handleMCPRequest_reply(method, readOk, parseOk, m, handled) ==
    LET process(msg) ==
            IF handled = "error"
            THEN [msg |-> msg, ret |-> "failed to process MCP message"]
            ELSE IF handled = "none"
            THEN [msg |-> msg, ret |-> "204 No Content"]
            ELSE [msg |-> msg, ret |-> "200 OK"]
    IN  IF method # "POST"
        THEN [msg |-> NoMsg, ret |-> "only POST method is allowed for MCP requests"]
        ELSE IF method = "POST"
        THEN IF ~readOk
             THEN [msg |-> NoMsg, ret |-> "failed to read request body"]
             ELSE IF ~parseOk
             THEN [msg |-> NoMsg, ret |-> "failed to parse MCP message"]
             ELSE process(m)
        ELSE IF method = "GET"
        THEN process(NewRequest)
        ELSE [msg |-> NoMsg,
              ret |-> "only GET or POST methods are allowed for MCP requests"]

\* one request to /mcp/request is served
handleMCPRequest(t, method, readOk, parseOk, m, handled) ==
    LET r == handleMCPRequest_reply(method, readOk, parseOk, m, handled) IN
    /\ ~crashed
    /\ pc[t] = "idle"
    /\ pc' = [pc EXCEPT ![t] = "done"]
    /\ call' = [call EXCEPT ![t] = [op |-> "handleMCPRequest", msg |-> r.msg,
                                    target |-> 0, ret |-> r.ret, method |-> method]]
    /\ UNCHANGED <<initialized, clock, clients, connId, closedBy, lastSeen, sink, ctxDone, iter, cur,
                   evt, stopCh, wg, mux, ticks, panicked, crashed>>

\* ------------------------------------------------------------------ Handler
\* the methods a message can name: the eight the Handler knows, and another
Methods == {"initialize", "initialized", "tools/list", "tools/call", "resources/list",
            "resources/read", "resources/templates/list", "ping", "other/method"}

\* what a message is to HandleMessage: IsRequest, IsNotification, or neither
MessageKinds == {"request", "notification", "neither"}

\* how the tool of a tools/call, or the read of a resources/read, ends
Outcomes == {"ok", "not found", "execution error"}

\* handleRequest without the h.initialized test of handleListTools
handleRequest_reply_noGate(method, init, paramsOk, outcome) ==
    IF method = "initialize"
    THEN (IF paramsOk THEN "result" ELSE "Invalid params")
    ELSE IF method = "tools/list" THEN "result"
    ELSE IF method \in {"resources/list", "resources/templates/list"}
    THEN (IF init THEN "result" ELSE "Server not initialized")
    ELSE IF method = "resources/read"
    THEN (IF ~init THEN "Server not initialized"
          ELSE IF ~paramsOk THEN "Invalid params"
          ELSE IF outcome # "ok" THEN "Resource read failed"
          ELSE "result")
    ELSE IF method = "ping" THEN "result"
    ELSE "Method not found"

\* handleRequest: the response to a request of every method but tools/call
handleRequest_reply(method, init, paramsOk, outcome) ==
    IF method = "initialize"
    THEN (IF paramsOk THEN "result" ELSE "Invalid params")
    ELSE IF method \in {"tools/list", "resources/list", "resources/templates/list"}
    THEN (IF init THEN "result" ELSE "Server not initialized")
    ELSE IF method = "resources/read"
    THEN (IF ~init THEN "Server not initialized"
          ELSE IF ~paramsOk THEN "Invalid params"
          ELSE IF outcome # "ok" THEN "Resource read failed"
          ELSE "result")
    ELSE IF method = "ping" THEN "result"
    ELSE "Method not found"

HandlerOps == {"HandleMessage", "handleCallTool"}

\* the Handler is between two messages and has been given fewer than
\* MaxMessages
HandlerReady(t) ==
    \/ pc[t] = "idle"
    \/ /\ pc[t] = "done"
       /\ call[t].op \in HandlerOps
       /\ call[t].stage = "returned"
       /\ call[t].n < MaxMessages

\* messages the Handler has been given so far
Handled(t) == IF pc[t] = "idle" THEN 0 ELSE call[t].n

\* HandleMessage of any message but a tools/call request: handleRequest,
\* handleNotification (nil response), or "Invalid request"
HandleMessage(t, kind, method, paramsOk, outcome) ==
    /\ ~crashed
    /\ HandlerReady(t)
    /\ ~(kind = "request" /\ method = "tools/call")
    /\ pc' = [pc EXCEPT ![t] = "done"]
    /\ initialized' = IF kind = "notification" /\ method = "initialized"
                      THEN TRUE ELSE initialized
    /\ call' = [call EXCEPT ![t] =
                   [op |-> "HandleMessage", msg |-> NoMsg, target |-> 0,
                    ret |-> IF kind = "request"
                              THEN handleRequest_reply(method, initialized, paramsOk, outcome)
                            ELSE IF kind = "notification" THEN "no response"
                            ELSE "Invalid request",
                    stage |-> "returned", n |-> Handled(t) + 1,
                    kind |-> kind, method |-> method,
                    outcome |-> outcome, streamed |-> << >>]]
    /\ UNCHANGED <<clock, clients, connId, closedBy, lastSeen, sink, ctxDone, iter, cur,
                   evt, stopCh, wg, mux, ticks, panicked, crashed>>

\* h.streamer.IsStreamingEnabled() and, when it holds, the call of
\* StreamToolProgress or StreamMessage with message m (its result is ignored):
\* the new position of the Handler and its call record r
StreamIfEnabled(t, r, what, m) ==
    IF GetConnectedClients > 0
    THEN /\ pc' = [pc EXCEPT ![t] = "sm_count"]
         /\ call' = [call EXCEPT ![t] =
                       [r EXCEPT !.msg = m, !.streamed = Append(@, what)]]
    ELSE /\ pc' = [pc EXCEPT ![t] = "done"]
         /\ call' = [call EXCEPT ![t] = r]

\* handleCallTool up to its first stream call: the h.initialized test,
\* GetParams, and the "started" progress notification
handleCallTool_call(t, paramsOk, outcome) ==
    LET r(ret, stage) == [op |-> "handleCallTool", msg |-> NoMsg, target |-> 0,
                          ret |-> ret, stage |-> stage, n |-> Handled(t) + 1,
                          kind |-> "request", method |-> "tools/call",
                          outcome |-> outcome, streamed |-> << >>] IN
    /\ ~crashed
    /\ HandlerReady(t)
    /\ mux = "free"
    /\ IF ~initialized
       THEN /\ pc' = [pc EXCEPT ![t] = "done"]
            /\ call' = [call EXCEPT ![t] = r("Server not initialized", "returned")]
       ELSE IF ~paramsOk
       THEN /\ pc' = [pc EXCEPT ![t] = "done"]
            /\ call' = [call EXCEPT ![t] = r("Invalid params", "returned")]
       ELSE StreamIfEnabled(t, r("none", "started"), "started",
                            NewNotificationFor("tools/progress", Payload))
    /\ UNCHANGED <<initialized, clock, clients, connId, closedBy, lastSeen, sink, ctxDone,
                   iter, cur, evt, stopCh, wg, mux, ticks, panicked, crashed>>

\* handleCallTool sending the "completed" notification before it looks at how
\* the tool ended
handleCallTool_next_completesFirst(t) ==
    LET r == call[t] IN
    /\ ~crashed
    /\ pc[t] = "done"
    /\ r.op = "handleCallTool"
    /\ r.stage # "returned"
    /\ mux = "free"
    /\ IF r.stage = "started"
       THEN StreamIfEnabled(t, [r EXCEPT !.stage = "completed"], "completed",
                            NewNotificationFor("tools/progress", Payload))
       ELSE IF r.stage = "completed"
       THEN IF r.outcome = "ok"
            THEN StreamIfEnabled(t, [r EXCEPT !.stage = "response"], "response", NewResponse)
            ELSE StreamIfEnabled(t, [r EXCEPT !.stage = "error"], "error", NewErrorResponse)
       ELSE /\ pc' = pc
            /\ call' = [call EXCEPT ![t] =
                          [r EXCEPT !.stage = "returned",
                                    !.ret = IF r.stage = "response" THEN "result"
                                            ELSE r.outcome]]
    /\ UNCHANGED <<initialized, clock, clients, connId, closedBy, lastSeen, sink, ctxDone,
                   iter, cur, evt, stopCh, wg, mux, ticks, panicked, crashed>>

\* handleCallTool after a stream call has returned: the tool lookup and
\* executeTool, then the error response, or "completed" and the response, each
\* streamed when IsStreamingEnabled; then the return
handleCallTool_next(t) ==
    LET r == call[t] IN
    /\ ~crashed
    /\ pc[t] = "done"
    /\ r.op = "handleCallTool"
    /\ r.stage # "returned"
    /\ mux = "free"
    /\ IF r.stage = "started"
       THEN IF r.outcome = "ok"
            THEN StreamIfEnabled(t, [r EXCEPT !.stage = "completed"], "completed",
                                 NewNotificationFor("tools/progress", Payload))
            ELSE StreamIfEnabled(t, [r EXCEPT !.stage = "error"], "error", NewErrorResponse)
       ELSE IF r.stage = "completed"
       THEN StreamIfEnabled(t, [r EXCEPT !.stage = "response"], "response", NewResponse)
       ELSE /\ pc' = pc
            /\ call' = [call EXCEPT ![t] =
                          [r EXCEPT !.stage = "returned",
                                    !.ret = IF r.stage = "response" THEN "result"
                                            ELSE r.outcome]]
    /\ UNCHANGED <<initialized, clock, clients, connId, closedBy, lastSeen, sink, ctxDone,
                   iter, cur, evt, stopCh, wg, mux, ticks, panicked, crashed>>

\* the loop over a snapshot starts
StartLoop(t, S) ==
    IF S # {}
    THEN /\ \E c \in S : /\ cur' = [cur EXCEPT ![t] = c]
                         /\ iter' = [iter EXCEPT ![t] = S \ {c}]
         /\ pc' = [pc EXCEPT ![t] = "check"]
         /\ call' = call
    ELSE /\ UNCHANGED <<cur, iter>>
         /\ pc' = [pc EXCEPT ![t] = AfterLoop(t)]
         /\ call' = CallAfterLoop(t)

\* BroadcastMessage_snapshot without its RUnlock: the lock stays held into the
\* delivery loop
BroadcastMessage_snapshot_holdsLock(t) ==
    /\ ~crashed
    /\ pc[t] = "snapshot"
    /\ mux = "free"
    /\ mux' = "reader"
    /\ StartLoop(t, Registered)
    /\ UNCHANGED <<initialized, clock, clients, connId, closedBy, lastSeen, sink, ctxDone, evt,
                   stopCh, wg, ticks, panicked, crashed>>

\* BroadcastMessage: the copy of sh.clients under RLock
BroadcastMessage_snapshot(t) ==
    /\ ~crashed
    /\ pc[t] = "snapshot"
    /\ mux = "free"
    /\ StartLoop(t, Registered)
    /\ UNCHANGED <<initialized, clock, clients, connId, closedBy, lastSeen, sink, ctxDone, evt,
                   stopCh, wg, mux, ticks, panicked, crashed>>

\* SendToClient_lookup reporting an unknown id to its caller as an error
SendToClient_lookup_errOnMiss(t) ==
    LET c == clients[call[t].target] IN
    /\ ~crashed
    /\ pc[t] = "lookup"
    /\ mux = "free"
    /\ IF c # NoConn
       THEN /\ cur' = [cur EXCEPT ![t] = c]
            /\ pc' = [pc EXCEPT ![t] = "check"]
            /\ call' = call
       ELSE /\ pc' = [pc EXCEPT ![t] = "done"]
            /\ call' = [call EXCEPT ![t].ret = "err"]
            /\ cur' = cur
    /\ UNCHANGED <<initialized, clock, clients, connId, closedBy, lastSeen, sink, ctxDone, iter,
                   evt, stopCh, wg, mux, ticks, panicked, crashed>>

\* SendToClient_lookup delivering to every registered connection once the id
\* is found
SendToClient_lookup_toAll(t) ==
    LET c == clients[call[t].target] IN
    /\ ~crashed
    /\ pc[t] = "lookup"
    /\ mux = "free"
    /\ IF c # NoConn
       THEN StartLoop(t, Registered)
       ELSE /\ pc' = [pc EXCEPT ![t] = "done"]
            /\ call' = [call EXCEPT ![t].ret = "nil"]
            /\ UNCHANGED <<cur, iter>>
    /\ UNCHANGED <<initialized, clock, clients, connId, closedBy, lastSeen, sink, ctxDone,
                   evt, stopCh, wg, mux, ticks, panicked, crashed>>

\* SendToClient: the lookup under RLock; an unknown id is logged and dropped
SendToClient_lookup(t) ==
    LET c == clients[call[t].target] IN
    /\ ~crashed
    /\ pc[t] = "lookup"
    /\ mux = "free"
    /\ IF c # NoConn
       THEN /\ cur' = [cur EXCEPT ![t] = c]
            /\ pc' = [pc EXCEPT ![t] = "check"]
            /\ call' = call
       ELSE /\ pc' = [pc EXCEPT ![t] = "done"]
            /\ call' = [call EXCEPT ![t].ret = "nil"]
            /\ cur' = cur
    /\ UNCHANGED <<initialized, clock, clients, connId, closedBy, lastSeen, sink, ctxDone, iter,
                   evt, stopCh, wg, mux, ticks, panicked, crashed>>

\* ---------------------------------------------------------------- heartbeat
\* Start: sh.wg.Add(1); go sh.heartbeatLoop()
Start ==
    /\ ~crashed
    /\ pc[HB] = "off"
    /\ wg' = wg + 1
    /\ pc' = [pc EXCEPT ![HB] = "loop"]
    /\ UNCHANGED <<initialized, clock, clients, connId, closedBy, lastSeen, sink, ctxDone, iter, cur,
                   evt, call, stopCh, mux, ticks, panicked, crashed>>

\* heartbeatLoop: case <-ticker.C
heartbeatLoop_tick ==
    /\ ~crashed
    /\ pc[HB] = "loop"
    /\ ticks < MaxTicks
    /\ ticks' = ticks + 1
    /\ pc' = [pc EXCEPT ![HB] = "hb_snapshot"]
    /\ UNCHANGED <<initialized, clock, clients, connId, closedBy, lastSeen, sink, ctxDone, iter, cur,
                   evt, call, stopCh, wg, mux, panicked, crashed>>

\* heartbeatLoop: case <-sh.stopCh, with the deferred wg.Done()
heartbeatLoop_stop ==
    /\ ~crashed
    /\ pc[HB] = "loop"
    /\ stopCh
    /\ pc' = [pc EXCEPT ![HB] = "exited"]
    /\ wg' = wg - 1
    /\ UNCHANGED <<initialized, clock, clients, connId, closedBy, lastSeen, sink, ctxDone, iter, cur,
                   evt, call, stopCh, mux, ticks, panicked, crashed>>

\* sendHeartbeat: the copy of sh.clients under RLock
sendHeartbeat_snapshot ==
    /\ ~crashed
    /\ pc[HB] = "hb_snapshot"
    /\ mux = "free"
    /\ StartLoop(HB, Registered)
    /\ evt' = [evt EXCEPT ![HB] = HeartbeatEvt]
    /\ UNCHANGED <<initialized, clock, clients, connId, closedBy, lastSeen, sink, ctxDone, stopCh,
                   wg, mux, ticks, panicked, crashed>>

\* --------------------------------------------------------------------- Stop
\* close(sh.stopCh)
Stop_call ==
    /\ ~crashed
    /\ pc[STOP] = "idle"
    /\ IF stopCh
       THEN /\ Panic(STOP, "close of closed stopCh")
            /\ stopCh' = stopCh
       ELSE /\ stopCh' = TRUE
            /\ pc' = [pc EXCEPT ![STOP] = "join"]
            /\ UNCHANGED <<iter, cur, wg, mux, panicked, crashed>>
    /\ UNCHANGED <<initialized, clock, clients, connId, closedBy, lastSeen, sink, ctxDone, evt,
                   call, ticks>>

\* Stop_join without the wait on sh.wg
Stop_join_noWait ==
    /\ ~crashed
    /\ pc[STOP] = "join"
    /\ pc' = [pc EXCEPT ![STOP] = "lock"]
    /\ UNCHANGED <<initialized, clock, clients, connId, closedBy, lastSeen, sink, ctxDone, iter, cur,
                   evt, call, stopCh, wg, mux, ticks, panicked, crashed>>

\* sh.wg.Wait()
Stop_join ==
    /\ ~crashed
    /\ pc[STOP] = "join"
    /\ wg = 0
    /\ pc' = [pc EXCEPT ![STOP] = "lock"]
    /\ UNCHANGED <<initialized, clock, clients, connId, closedBy, lastSeen, sink, ctxDone, iter, cur,
                   evt, call, stopCh, wg, mux, ticks, panicked, crashed>>

\* sh.clientsMux.Lock(); the range over sh.clients starts
Stop_lock ==
    /\ ~crashed
    /\ pc[STOP] = "lock"
    /\ mux = "free"
    /\ mux' = "stop"
    /\ iter' = [iter EXCEPT ![STOP] = Registered]
    /\ pc' = [pc EXCEPT ![STOP] = "closing"]
    /\ UNCHANGED <<initialized, clock, clients, connId, closedBy, lastSeen, sink, ctxDone, cur, evt,
                   call, stopCh, wg, ticks, panicked, crashed>>

\* Stop_close as a loop that passes over an open connection without closing it
Stop_close_passes(c) ==
    /\ ~crashed
    /\ pc[STOP] = "closing"
    /\ c \in iter[STOP]
    /\ iter' = [iter EXCEPT ![STOP] = @ \ {c}]
    /\ UNCHANGED <<initialized, clock, clients, connId, closedBy, lastSeen, sink, ctxDone, pc,
                   cur, evt, call, stopCh, wg, mux, ticks, panicked, crashed>>

\* close(client.Done) for any entry not yet visited; a closed channel panics
\* and the deferred Unlock runs
Stop_close(c) ==
    /\ ~crashed
    /\ pc[STOP] = "closing"
    /\ c \in iter[STOP]
    /\ IF Closed(c)
       THEN /\ Panic(STOP, "close of closed Done")
            /\ closedBy' = closedBy
       ELSE /\ closedBy' = [closedBy EXCEPT ![c] = "stop"]
            /\ iter' = [iter EXCEPT ![STOP] = @ \ {c}]
            /\ UNCHANGED <<pc, cur, wg, mux, panicked, crashed>>
    /\ UNCHANGED <<initialized, clock, clients, connId, lastSeen, sink, ctxDone, evt, call, stopCh,
                   ticks>>

\* sh.clients = make(map...); the deferred Unlock; Stop returns
Stop_clear ==
    /\ ~crashed
    /\ pc[STOP] = "closing"
    /\ iter[STOP] = {}
    /\ clients' = [i \in Ids |-> NoConn]
    /\ mux' = "free"
    /\ pc' = [pc EXCEPT ![STOP] = "done"]
    /\ UNCHANGED <<initialized, clock, connId, closedBy, lastSeen, sink, ctxDone, iter, cur, evt,
                   call, stopCh, wg, ticks, panicked, crashed>>

\* a second Stop that finds no closed stop signal and returns at once
Stop_again_returns ==
    /\ ~crashed
    /\ pc[STOP] = "done"
    /\ stopCh
    /\ pc' = [pc EXCEPT ![STOP] = "returned"]
    /\ UNCHANGED <<initialized, clock, clients, connId, closedBy, lastSeen, sink, ctxDone, iter, cur,
                   evt, call, stopCh, wg, mux, ticks, panicked, crashed>>

\* Stop called on an instance whose Stop has returned: close(sh.stopCh) on the
\* closed channel panics before anything else is done
Stop_again ==
    /\ ~crashed
    /\ pc[STOP] = "done"
    /\ stopCh
    /\ Panic(STOP, "close of closed stopCh")
    /\ UNCHANGED <<initialized, clock, clients, connId, closedBy, lastSeen, sink, ctxDone, evt,
                   call, stopCh, ticks>>

\* ----------------------------------------------------------- specifications
\* the message the callers of the concurrent hub stream
HubMessages == {NewNotification}

Acceptor ==
    \E c \in Conns :
        \/ HandleSSE_noFlusher(c)
        \/ \E now \in Ids : HandleSSE_register(c, now)
        \/ HandleSSE_wait(c)
        \/ removeClient(c)
        \/ Context_cancel(c)

sendEvent(t) ==
    \/ sendEvent_check(t)
    \/ sendEvent_write(t)
    \/ \E ok \in BOOLEAN : sendEvent_written(t, ok)

Delivery == \E t \in Senders : sendEvent(t)

\* Spec runs the acceptors and Stop against one kind of delivering task per
\* behaviour: callers of the delivery boundary, or the heartbeat loop.
NoHeartbeat == pc[HB] = "off"
NoCaller == \A t \in Callers : pc[t] = "idle"

HubCalls ==
    \E t \in Callers :
        \/ NoHeartbeat /\ \E m \in HubMessages : StreamMessage_call(t, m)
        \/ StreamMessage_count(t)
        \/ StreamMessage_log(t)
        \/ NoHeartbeat /\ \E id \in Ids : SendToClient_call(t, id, "custom", Payload)
        \/ NoHeartbeat /\ \E d \in RawData : StreamError_call(t, ErrorCodeInternalError, "hub failure", d)
        \/ BroadcastMessage_snapshot(t)
        \/ SendToClient_lookup(t)

Heartbeat ==
    \/ NoCaller /\ Start
    \/ heartbeatLoop_tick
    \/ heartbeatLoop_stop
    \/ sendHeartbeat_snapshot

Stop ==
    \/ Stop_call
    \/ Stop_join
    \/ Stop_lock
    \/ \E c \in Conns : Stop_close(c)
    \/ Stop_clear

Next == Acceptor \/ Delivery \/ HubCalls \/ Heartbeat \/ Stop

Spec == Init /\ [][Next]_vars

\* SeqSpec: the delivery boundary used with no concurrent registry change.
\* The acceptors and Stop run first; then one call is made, while no acceptor
\* is in the middle of a delivery and Stop is not running, and nothing else
\* runs during or after it. The caller
\* streams any message, to all or to one, or hands raw data to the hub.
NoCallYet == \A t \in Callers : pc[t] = "idle"
AcceptorDelivering == \E c \in Conns : pc[HTask(c)] \in {"check", "write", "inwrite"}
StopRunning == pc[STOP] \in {"join", "lock", "closing"}
CallMayStart == NoCallYet /\ ~AcceptorDelivering /\ ~StopRunning

SeqCalls ==
    \E t \in Callers :
        \/ CallMayStart /\ \E m \in Messages : StreamMessage_call(t, m)
        \/ CallMayStart /\ \E id \in Ids, m \in Messages : StreamMessageToClient_call(t, id, m)
        \/ CallMayStart /\ \E d \in RawData : BroadcastMessage_call(t, "custom", d)
        \/ CallMayStart /\ \E id \in Ids, d \in RawData : SendToClient_call(t, id, "custom", d)
        \/ CallMayStart /\ \E n \in MethodNames, d \in RawData : StreamNotification_call(t, n, d)
        \/ CallMayStart /\ \E n \in ToolNames, d \in RawData : StreamToolProgress_call(t, n, d)
        \/ CallMayStart /\ \E method \in HTTPMethods, readOk, parseOk \in BOOLEAN,
                               m \in BodyMessages, handled \in HandleMessageResults :
                               handleMCPRequest(t, method, readOk, parseOk, m, handled)
        \/ StreamMessage_count(t)
        \/ StreamMessage_log(t)
        \/ BroadcastMessage_snapshot(t)
        \/ SendToClient_lookup(t)
        \/ sendEvent(t)

SeqAcceptor ==
    \/ NoCallYet /\ Acceptor
    \/ NoCallYet /\ \E c \in Conns : sendEvent(HTask(c))
    \/ NoCallYet /\ Stop

SeqNext == SeqAcceptor \/ SeqCalls

SeqSpec == Init /\ [][SeqNext]_vars

\* OrdSpec: a caller broadcasts A and, once that call has returned, B, while
\* the heartbeat loop ticks and connections end concurrently. Connections are
\* accepted and greeted, and the loop is started, before the first broadcast.
OrdCalls ==
    \E t \in Callers :
        \/ ~AcceptorDelivering /\ BroadcastMessage_call(t, "A", Payload)
        \/ BroadcastMessage_again(t, "B", Payload)
        \/ BroadcastMessage_snapshot(t)

OrdAcceptor ==
    \E c \in Conns :
        \/ NoCallYet /\ \E now \in Ids : HandleSSE_register(c, now)
        \/ HandleSSE_wait(c)
        \/ removeClient(c)
        \/ Context_cancel(c)

OrdHeartbeat ==
    \/ NoCallYet /\ Start
    \/ heartbeatLoop_tick
    \/ sendHeartbeat_snapshot

OrdNext == OrdAcceptor \/ Delivery \/ OrdCalls \/ OrdHeartbeat

OrdSpec == Init /\ [][OrdNext]_vars

\* JoinSpec: the hub as the server drives it, Start before Stop
\* (Server.Start calls Start, Server.Shutdown calls Stop), with the acceptors
\* and the heartbeat loop running concurrently and no other caller.
JoinHeartbeat ==
    \/ ~stopCh /\ Start
    \/ heartbeatLoop_tick
    \/ heartbeatLoop_stop
    \/ sendHeartbeat_snapshot

JoinNext == Acceptor \/ Delivery \/ JoinHeartbeat \/ Stop

JoinSpec == Init /\ [][JoinNext]_vars

\* LifeSpec: the lifecycle entry points called one after the other in any
\* order: Start before Stop is called or after it has returned, and Stop called
\* a second time, with the acceptors and the heartbeat loop running
\* concurrently and no other caller.
LifeHeartbeat ==
    \/ pc[STOP] \in {"idle", "done", "panicked"} /\ Start
    \/ heartbeatLoop_tick
    \/ heartbeatLoop_stop
    \/ sendHeartbeat_snapshot

LifeStop == Stop \/ Stop_again

LifeNext == Acceptor \/ Delivery \/ LifeHeartbeat \/ LifeStop

LifeSpec == Init /\ [][LifeNext]_vars

\* HandlerSpec: connections are accepted and greeted; then one Handler is
\* given up to MaxMessages messages, one after the other, and streams its
\* tools/call through the hub with no concurrent registry change.
HandlerAcceptor ==
    \E c \in Conns :
        \/ NoCallYet /\ \E now \in Ids : HandleSSE_register(c, now)
        \/ NoCallYet /\ sendEvent(HTask(c))

HandlerCalls ==
    \E t \in Callers :
        \/ ~AcceptorDelivering /\
              \E kind \in MessageKinds, method \in Methods, paramsOk \in BOOLEAN,
                 outcome \in Outcomes : HandleMessage(t, kind, method, paramsOk, outcome)
        \/ ~AcceptorDelivering /\
              \E paramsOk \in BOOLEAN, outcome \in Outcomes :
                 handleCallTool_call(t, paramsOk, outcome)
        \/ handleCallTool_next(t)
        \/ StreamMessage_count(t)
        \/ StreamMessage_log(t)
        \/ BroadcastMessage_snapshot(t)
        \/ sendEvent(t)

HandlerNext == HandlerAcceptor \/ HandlerCalls

HandlerSpec == Init /\ [][HandlerNext]_vars

\* ------------------------------------------------------------------ claims
\* frames task t has handed to connection c's sink, in order
WritesBy(t, c) == SelectSeq(sink[c], LAMBDA f : f.by = t)

\* connections on which a write by t failed
FailedBy(t) == {c \in Conns : \E i \in DOMAIN sink[c] : sink[c][i].by = t /\ ~sink[c][i].ok}

\* connections with a failed write
FailedOn == {c \in Conns : \E i \in DOMAIN sink[c] : ~sink[c][i].ok}

\* tasks inside the write-and-flush step for connection c
Writing(c) == {t \in Senders : pc[t] = "inwrite" /\ cur[t] = c}

DoubleClose == {p \in panicked : p[2] = "close of closed Done"}

\* C1: at most one task at a time is inside the write-and-flush step of
\* sendEvent for one connection.
C1_WritesExclusive == \A c \in Conns : Cardinality(Writing(c)) <= 1

\* C2: firing a connection's terminal signal a second time completes normally:
\* no close(client.Done) ever panics.
C2_SecondFireSafe == DoubleClose = {}

\* C3: no write to a connection's sink begins in a state where its Done is
\* already closed.
C3_NoWriteAfterDone ==
    [][\A t \in Senders : (pc[t] = "write" /\ pc'[t] = "inwrite") => ~Closed(cur[t])]_vars

\* C4: when Stop returns the registry is empty and the terminal signal of
\* every connection that was in it when Stop cleared it has fired.
C4_StopDrains ==
    [][(pc[STOP] = "closing" /\ pc'[STOP] = "done")
          => /\ GetConnectedClients' = 0
             /\ \A c \in Registered : Closed(c)']_vars

\* C4 witness: Stop has returned after closing two registered connections.
C4_Witness ==
    /\ pc[STOP] = "done"
    /\ Cardinality({c \in Conns : closedBy[c] = "stop"}) >= 2
    /\ GetConnectedClients = 0

\* C5: once Stop has returned, no write begins on a connection that was
\* registered before Stop (here: one whose Done Stop closed).
C5_NoDeliveryAfterStop ==
    [][\A t \in Senders : (pc[STOP] = "done" /\ pc[t] = "write" /\ pc'[t] = "inwrite")
                             => closedBy[cur[t]] # "stop"]_vars

\* C6: every way a connection's life ends fires its terminal signal, exactly
\* once: a connection whose HandleSSE has returned has a closed Done, and no
\* close is ever attempted on a closed Done.
C6_FiredExactlyOnce ==
    /\ \A c \in Conns : (pc[HTask(c)] = "done" /\ connId[c] # -1) => Closed(c)
    /\ DoubleClose = {}

\* connections registered and open when call t was made, in a state of SeqSpec
\* after the call (nothing but the call has run since it started)
Targets(t) == {c \in Registered : ~Closed(c) \/ c \in FailedBy(t)}

\* call t wrote exactly once to each connection of S, nowhere else, and all
\* its frames carry one event type and one payload
WroteOnceTo(t, S) ==
    /\ \A c \in Conns : Len(WritesBy(t, c)) = IF c \in S THEN 1 ELSE 0
    /\ \A c, d \in S : /\ WritesBy(t, c)[1].type = WritesBy(t, d)[1].type
                       /\ WritesBy(t, c)[1].data = WritesBy(t, d)[1].data

BroadcastOps == {"StreamMessage", "BroadcastMessage"}
StreamOps == {"StreamMessage", "StreamMessageToClient"}

C8_FailureIsLocal ==
    \A t \in Callers :
        call[t].op \in BroadcastOps =>
            \A c \in FailedBy(t) :
                /\ Closed(c)
                /\ Len(WritesBy(t, c)) = 1
                /\ pc[t] # "panicked"
                /\ pc[t] = "done" => call[t].ret = "nil"

\* C9: a registered connection on which a write failed is eventually removed
\* from the registry; stated on the states where the system can take no step.
C9_FailedIsRemoved == (ENABLED Next) \/ (FailedOn \cap Registered = {})

Malformed(m) == ~IsRequest(m) /\ ~IsResponse(m) /\ ~IsNotification(m)

UnicastTargets(t) == {clients[call[t].target]} \cap Targets(t)

IsTableRequest(m) == m.method /\ m.id
IsTableNotification(m) == m.method /\ ~m.id
IsTableError(m) == ~m.method /\ m.id /\ m.error
IsTableSuccess(m) == ~m.method /\ m.id /\ m.result /\ ~m.error
WellFormed(m) == IsTableRequest(m) \/ IsTableNotification(m) \/ IsTableError(m)
                     \/ IsTableSuccess(m)

\* the event type the table gives a well-formed message
TableType(m) ==
    IF IsTableRequest(m) THEN "mcp_request"
    ELSE IF IsTableNotification(m) THEN "mcp_notification"
    ELSE IF IsTableError(m) THEN "mcp_error"
    ELSE "mcp_response"

\* the tests in the order notification, request, error response, success
\* response
PrecedenceType(m) ==
    IF m.method /\ ~m.id THEN "mcp_notification"
    ELSE IF m.method /\ m.id THEN "mcp_request"
    ELSE IF ~m.method /\ m.error THEN "mcp_error"
    ELSE IF ~m.method /\ m.result /\ ~m.error THEN "mcp_response"
    ELSE "mcp_message"

\* exactly one row of the classification table applies to m
OneRow(m) ==
    Cardinality({r \in {"request", "notification", "error", "success"} :
                    \/ r = "request" /\ IsTableRequest(m)
                    \/ r = "notification" /\ IsTableNotification(m)
                    \/ r = "error" /\ IsTableError(m)
                    \/ r = "success" /\ IsTableSuccess(m)}) = 1

Created == {c \in Conns : connId[c] # -1}

\* C12: no two connections created during the lifetime of the StreamHandler
\* receive the same id from generateClientID.
C12_IdsUnique ==
    \A c, d \in Created : c # d => connId[c] # connId[d]

\* HandleSSE tasks that have completed addClient and not completed removeClient
Accepted == {c \in Conns : pc[HTask(c)] \in {"check", "write", "inwrite", "wait", "remove"}}

\* C13: while Stop has not been called, GetConnectedClients() equals the number
\* of HandleSSE tasks that have completed addClient and not yet completed
\* removeClient.
C13_CountConsistent ==
    pc[STOP] = "idle" => GetConnectedClients = Cardinality(Accepted)

\* C14: no task holds the registry lock while it writes to a sink: whenever a
\* sender is at or inside a write, the lock is free unless Stop (which writes to
\* no sink) holds it for its close loop, and, Stop aside, addClient and
\* removeClient of every other HandleSSE can complete at once.
C14_NoLockAcrossWrite ==
    \A t \in Senders :
        (pc[t] \in {"write", "inwrite"} /\ ~crashed) =>
            /\ mux = IF pc[STOP] = "closing" THEN "stop" ELSE "free"
            /\ pc[STOP] # "closing" =>
                  \A c \in Conns :
                      /\ pc[HTask(c)] = "remove" => ENABLED removeClient(c)
                      /\ pc[HTask(c)] = "idle" => ENABLED HandleSSE_register(c, clock)

\* C14 witness: a caller is inside a write to one connection while the
\* HandleSSE of another connection is about to run removeClient.
C14_Witness ==
    \E t \in Callers, c, d \in Conns :
        /\ c # d
        /\ ~crashed
        /\ pc[t] = "inwrite" /\ cur[t] = c
        /\ pc[HTask(d)] = "remove"
        /\ pc[STOP] # "closing"

\* C15: a StreamMessage call that finds the connected count 0 returns nil at
\* once, for every message: nothing is formatted (no event is prepared),
\* BroadcastMessage is not entered and no sink is written.
C15_ZeroSubscriberNoOp ==
    [][\A t \in Callers :
          (pc[t] = "sm_count" /\ pc'[t] # "sm_count" /\ GetConnectedClients = 0)
              => /\ pc'[t] = "done"
                 /\ call'[t].ret = "nil"
                 /\ evt'[t] = NoEvt
                 /\ sink' = sink]_vars

\* C15 witness: StreamMessage of a message json.Marshal rejects has returned
\* nil with nothing registered and nothing written.
C15_Witness ==
    \E t \in Callers :
        /\ pc[t] = "done"
        /\ call[t].op = "StreamMessage"
        /\ ~call[t].msg.marshal
        /\ call[t].ret = "nil"
        /\ GetConnectedClients = 0
        /\ \A c \in Conns : WritesBy(t, c) = << >>

UnicastOps == {"SendToClient", "StreamMessageToClient"}

\* call t wrote to no connection
WroteNothing(t) == \A c \in Conns : WritesBy(t, c) = << >>

\* the id call t names has no entry in the registry
TargetMissing(t) == clients[call[t].target] = NoConn

FramesOf(c, ty) == {i \in DOMAIN sink[c] : sink[c][i].type = ty}

StopPastJoin == pc[STOP] \in {"lock", "closing", "done"}

C20_StopWithoutStart ==
    [][pc[HB] = "off" =>
          /\ (pc[STOP] = "join" /\ ~crashed) => ENABLED Stop_join
          /\ pc'[STOP] # "panicked"
          /\ (pc[STOP] = "closing" /\ pc'[STOP] = "done") =>
                /\ GetConnectedClients' = 0
                /\ \A c \in Registered : Closed(c)']_vars

\* C21: Stop never deadlocks: with every sink write returning, a Stop that was
\* called returns. Stated on the states where the system can take no step:
\* there Stop is either not called or has returned.
C21_StopReturns == (ENABLED Next) \/ pc[STOP] \in {"idle", "done"}

\* C22: a connection whose request context has ended is deregistered: its
\* HandleSSE returns and its id leaves the registry, and once all accepted
\* connections' contexts have ended the count is 0. Stated on the states where
\* the system can take no step.
C22_ContextEndDeregisters ==
    (ENABLED Next) \/
        /\ \A c \in Conns : ctxDone[c] => pc[HTask(c)] = "done" /\ clients[connId[c]] = NoConn
        /\ (\A c \in Created : ctxDone[c]) => GetConnectedClients = 0

\* the frames call t has written, on any connection
FramesBy(t) == UNION {Range(WritesBy(t, c)) : c \in Conns}

Unserializable(t) ==
    IF call[t].op \in StreamOps THEN ~call[t].msg.marshal ELSE ~Marshals(evt[t][2])

\* the open connections call t targets
CallTargets(t) == IF call[t].op \in UnicastOps THEN UnicastTargets(t) ELSE Targets(t)

RawOps == {"BroadcastMessage", "SendToClient"}

C25_RemoveIsLocal ==
    [][\A c \in Conns :
          (pc[HTask(c)] = "remove" /\ pc'[HTask(c)] = "done") =>
              /\ clients[connId[c]] = NoConn => clients' = clients
              /\ \A i \in Ids : clients[i] \notin {NoConn, c} => clients'[i] = clients[i]
              /\ panicked' = panicked]_vars

\* C26: the first frame handed to a connection's writer is the "connected"
\* event carrying that connection's clientId; no broadcast, unicast or
\* heartbeat frame precedes it.
C26_ConnectedFirst ==
    \A c \in Conns :
        sink[c] # << >> =>
            /\ sink[c][1].type = "connected"
            /\ sink[c][1].data = ConnectedEvt(connId[c])[2]

\* C27: StreamError classifies nothing: whatever the code, message, data and
\* connected count, it hands BroadcastMessage the event type "error" and the
\* payload {code, message, data} once, writes at most one frame per connection,
\* is not ended by a failed write, and returns nil.
C27_StreamErrorBroadcasts ==
    \A t \in Callers :
        call[t].op = "StreamError" =>
            /\ evt[t][1] = "error"
            /\ DOMAIN evt[t][2] = {"code", "message", "data"}
            /\ \A c \in Conns : Len(WritesBy(t, c)) <= 1
            /\ pc[t] # "panicked"
            /\ pc[t] = "done" => call[t].ret = "nil"

NotifyOps == {"StreamNotification", "StreamToolProgress"}

HeartbeatPending(c) ==
    \/ c \in iter[HB]
    \/ cur[HB] = c /\ pc[HB] \in {"check", "write", "inwrite"}

\* C29: on a tick of the started heartbeat loop the snapshot holds every
\* registered connection, and each connection of the snapshot whose Done is
\* not closed when its turn comes is handed one "heartbeat" frame carrying a
\* timestamp before the loop leaves it.
C29_HeartbeatReachesAll ==
    [][/\ (pc[HB] = "hb_snapshot" /\ pc'[HB] # "hb_snapshot") =>
             \A c \in Registered : HeartbeatPending(c)'
       /\ \A c \in Conns :
             (HeartbeatPending(c) /\ ~HeartbeatPending(c)') =>
                 \/ pc[HB] = "check" /\ cur[HB] = c /\ Closed(c)
                 \/ /\ Len(WritesBy(HB, c)') = Len(WritesBy(HB, c)) + 1
                    /\ sink'[c][Len(sink'[c])].type = "heartbeat"
                    /\ DOMAIN sink'[c][Len(sink'[c])].data = {"timestamp"}]_vars

\* C30: a GET request to /mcp/request is not rejected with "only POST method
\* is allowed for MCP requests": it is processed as a tools/list request.
C30_GetAccepted ==
    \A t \in Callers :
        (pc[t] = "done" /\ call[t].op = "handleMCPRequest") =>
            (call[t].method = "GET" =>
                /\ call[t].ret # "only POST method is allowed for MCP requests"
                /\ call[t].msg = NewRequest)

\* where a task is about to read sh.clients under RLock: the copy in
\* BroadcastMessage and sendHeartbeat, the lookup in SendToClient, and
\* GetConnectedClients in StreamMessage
RegistryReaderAt == {"snapshot", "hb_snapshot", "lookup", "sm_count", "sm_log"}

\* C31: while one task mutates sh.clients no other task reads or mutates it:
\* from Stop's Lock to its Unlock no snapshot, lookup or count is taken, no
\* addClient or removeClient runs, and the only change of the map is Stop's own
\* clear.
C31_RegistryLocked ==
    [][mux = "stop" =>
          /\ \A t \in Senders : pc[t] \in RegistryReaderAt => pc'[t] = pc[t]
          /\ \A c \in Conns :
                /\ pc[HTask(c)] = "remove" => pc'[HTask(c)] = "remove"
                /\ pc[HTask(c)] = "idle" => pc'[HTask(c)] # "check"
          /\ clients' # clients => (pc[STOP] = "closing" /\ pc'[STOP] = "done")]_vars

\* C31 witness: Stop holds the lock with entries still to close while one
\* HandleSSE is at its removeClient and a caller is at a read of the registry.
C31_Witness ==
    /\ mux = "stop"
    /\ iter[STOP] # {}
    /\ ~crashed
    /\ \E c \in Conns : pc[HTask(c)] = "remove"
    /\ \E t \in Callers : pc[t] \in RegistryReaderAt

\* the connections of task t's snapshot that its range loop has not left yet
LoopPending(t) ==
    iter[t] \cup (IF pc[t] \in {"check", "write", "inwrite"} THEN {cur[t]} ELSE {})

\* the tasks that deliver to a snapshot of the registry
Broadcasters == {t \in Callers : call[t].op \notin UnicastOps} \cup {HB}

\* C32: a broadcast or heartbeat delivers to exactly its snapshot: the loop
\* starts with every connection registered at the snapshot, no step of any
\* task adds a connection to it, each connection leaves it only by being
\* attempted (skipped with Done closed, or written once), and nothing outside
\* it is written.
C32_SnapshotFixed ==
    [][\A t \in Broadcasters :
          IF pc[t] \in {"snapshot", "hb_snapshot"}
          THEN pc'[t] # pc[t] => LoopPending(t)' = Registered
          ELSE /\ LoopPending(t)' \subseteq LoopPending(t)
               /\ \A c \in LoopPending(t) \ LoopPending(t)' :
                     \/ pc[t] = "check" /\ cur[t] = c /\ Closed(c)
                     \/ Len(WritesBy(t, c)') = Len(WritesBy(t, c)) + 1
               /\ \A c \in Conns :
                     WritesBy(t, c)' # WritesBy(t, c) => c \in LoopPending(t)]_vars

\* C33: client.LastSeen is written by one task at a time and only after a
\* successful write: when a task's write to c succeeds and it assigns
\* LastSeen, no other task is inside the write-to-LastSeen section of sendEvent
\* for c; a failed write and a skipped one leave LastSeen as it was.
C33_LastSeenProtected ==
    [][\A t \in Senders :
          /\ (pc[t] = "inwrite" /\ pc'[t] # "inwrite") =>
                IF sink'[cur[t]][Len(sink'[cur[t]])].ok
                THEN \A u \in Senders \ {t} : ~(pc[u] = "inwrite" /\ cur[u] = cur[t])
                ELSE lastSeen' = lastSeen
          /\ (pc[t] = "check" /\ pc'[t] # "check" /\ Closed(cur[t])) =>
                lastSeen' = lastSeen]_vars

\* C34: no HandleSSE stays blocked in its select on a connection whose Done
\* Stop has closed, and once it has returned its removeClient has taken the
\* connection out of the registry; stated on the states where the system can
\* take no step.
C34_StopReleasesAcceptors ==
    (ENABLED Next) \/
        \A c \in Conns :
            closedBy[c] = "stop" =>
                /\ pc[HTask(c)] # "wait"
                /\ pc[HTask(c)] = "done" => clients[connId[c]] # c

\* C35: once HandleSSE has returned for a connection whose request context
\* ended (removeClient done), no write to that connection's writer begins,
\* whichever task still holds the connection in a snapshot.
C35_NoWriteAfterReturn ==
    [][\A t \in Senders :
          (pc[t] = "write" /\ pc'[t] = "inwrite") =>
              ~(ctxDone[cur[t]] /\ pc[HTask(cur[t])] = "done")]_vars

\* C36: Stop does not close the hub. Once Stop has returned, a HandleSSE call
\* still registers its connection (the count is positive, Done is open, the
\* "connected" event is prepared); no Done is closed any more except by a
\* failed write; the "connected" frame is written unless Done was closed
\* first; and HandleSSE leaves its select only on context end or a closed Done.
C36_OpenAfterStop ==
    [][pc[STOP] = "done" =>
          \A c \in Conns :
              /\ (pc[HTask(c)] = "idle" /\ pc'[HTask(c)] = "check") =>
                    /\ clients'[connId'[c]] = c
                    /\ GetConnectedClients' > 0
                    /\ ~Closed(c)'
                    /\ evt'[HTask(c)] = ConnectedEvt(connId'[c])
              /\ closedBy'[c] # closedBy[c] => closedBy'[c] = "write"
              /\ (pc[HTask(c)] \in {"check", "inwrite"} /\ pc'[HTask(c)] = "wait") =>
                    \/ Closed(c)
                    \/ /\ Len(WritesBy(HTask(c), c)') = 1
                       /\ WritesBy(HTask(c), c)'[1].type = "connected"
              /\ (pc[HTask(c)] = "wait" /\ pc'[HTask(c)] = "remove") =>
                    ctxDone[c] \/ closedBy[c] = "write"
                               \/ (closedBy[c] = "stop" /\ clients[connId[c]] # c)]_vars

\* C36 witness: Stop has returned and a connection is in the registry, open,
\* greeted and waiting: it was registered after Stop cleared the registry.
C36_Witness ==
    \E c \in Conns :
        /\ pc[STOP] = "done"
        /\ pc[HTask(c)] = "wait"
        /\ clients[connId[c]] = c
        /\ GetConnectedClients > 0
        /\ ~Closed(c)
        /\ \E i \in DOMAIN sink[c] : sink[c][i].type = "connected" /\ sink[c][i].ok

\* a Stop call has returned normally
StopReturned == pc[STOP] = "done" \/ <<STOP, "close of closed stopCh">> \in panicked

\* the second Stop closes the closed stop signal and does not return normally
SecondStopPanics ==
    (pc[STOP] = "done" /\ pc'[STOP] # "done") =>
        /\ pc'[STOP] = "panicked"
        /\ <<STOP, "close of closed stopCh">> \in panicked'
        /\ clients' = clients /\ closedBy' = closedBy

\* C37 as claimed: a second Stop does not return normally, and once Stop has
\* returned a started heartbeat loop takes no tick and writes no heartbeat.
C37_NoHeartbeatAfterStop ==
    [][/\ SecondStopPanics
       /\ StopReturned =>
             /\ ticks' = ticks
             /\ \A c \in Conns : WritesBy(HB, c)' = WritesBy(HB, c)]_vars

\* C37: a second Stop closes the closed stop signal and does not return
\* normally. A Start after Stop has returned spawns a heartbeat loop that can
\* take the closed stop signal at every select and then exits, so it does not
\* outlive a run with no step left; it writes a heartbeat only in a round its
\* select began by taking a tick of the ticker.
C37_StopOnceLoopExits ==
    /\ [][/\ SecondStopPanics
          /\ StopReturned =>
                /\ (pc[HB] = "off" /\ pc'[HB] # "off") =>
                      (pc'[HB] = "loop" /\ wg' = wg + 1)
                /\ (pc[HB] = "loop" /\ pc'[HB] = "exited") => wg' = wg - 1
                /\ \A c \in Conns :
                      WritesBy(HB, c)' # WritesBy(HB, c) => ticks > 0]_vars
    /\ []((StopReturned /\ pc[HB] = "loop" /\ ~crashed) => ENABLED heartbeatLoop_stop)
    /\ []((ENABLED LifeNext) \/ crashed \/ pc[HB] \in {"off", "exited"})

\* C37 witness: Stop has returned, a second Stop has panicked, and the
\* heartbeat loop started afterwards is inside a heartbeat write to a
\* registered connection.
C37_Witness ==
    /\ pc[STOP] = "panicked"
    /\ <<STOP, "close of closed stopCh">> \in panicked
    /\ pc[HB] = "inwrite"
    /\ cur[HB] \in Registered
    /\ ~crashed

\* requests the Handler answers only once it is initialized
GatedMethods == {"tools/list", "tools/call", "resources/list", "resources/read",
                 "resources/templates/list"}

\* this step is the Handler of t being given its next message
HandlesMessage(t) == pc'[t] # "idle" /\ Handled(t)' = Handled(t) + 1

\* C38: in every message sequence a tools/list, tools/call, resources/list,
\* resources/read or resources/templates/list request handled while no
\* "initialized" notification has been handled is answered "Server not
\* initialized", and is never answered so afterwards; only an "initialized"
\* notification opens the gate (an "initialize" request leaves it as it is)
\* and nothing closes it; "initialize" and "ping" are answered the same in
\* either state: "ping" with its result, "initialize" with its result or with
\* "Invalid params".
C38_InitializationGate ==
    [][/\ initialized => initialized'
       /\ \A t \in Callers :
            HandlesMessage(t) =>
              LET m == call'[t] IN
              /\ (m.kind = "request" /\ m.method \in GatedMethods)
                   => ((m.ret = "Server not initialized") <=> ~initialized)
              /\ initialized' <=>
                   (initialized \/ (m.kind = "notification" /\ m.method = "initialized"))
              /\ (m.kind = "request" /\ m.method = "initialize")
                   => m.ret \in {"result", "Invalid params"}
              /\ (m.kind = "request" /\ m.method = "ping") => m.ret = "result"
       /\ (initialized' # initialized) => \E t \in Callers : HandlesMessage(t)]_vars

\* the third message of a sequence is a tools/list request answered with its
\* result, the gate having been opened by an earlier message
C38_Witness ==
    \E t \in Callers :
        /\ pc[t] = "done"
        /\ call[t].op = "HandleMessage"
        /\ call[t].n = MaxMessages
        /\ call[t].kind = "request"
        /\ call[t].method = "tools/list"
        /\ call[t].ret = "result"
        /\ initialized

\* what a tools/call streams, by how its tool ends
StreamedNames(outcome) ==
    IF outcome = "ok" THEN <<"started", "completed", "response">>
    ELSE <<"started", "error">>

StreamedTypes(outcome) ==
    IF outcome = "ok" THEN <<"mcp_notification", "mcp_notification", "mcp_response">>
    ELSE <<"mcp_notification", "mcp_error">>

\* the event types of the last k frames t wrote to connection c
LastTypes(t, c, k) ==
    LET w == WritesBy(t, c) IN
    [i \in 1..k |-> w[Len(w) - k + i].type]

\* the Handler of t ran handleCallTool past the initialized and GetParams tests
CallToolAdmitted(t) ==
    /\ pc[t] # "idle"
    /\ call[t].op = "handleCallTool"
    /\ call[t].ret \notin {"Server not initialized", "Invalid params"}

\* C39: a tools/call streams "started", "completed" and the response, in this
\* order, when its tool succeeds, and "started" then the error response, never
\* "completed", when the tool is unknown or fails; at its return every
\* connection registered and open throughout has received exactly these
\* frames, in this order; with no connection registered it streams and writes
\* nothing.
C39_StreamingOrder ==
    \A t \in Callers :
        CallToolAdmitted(t) =>
          LET r == call[t]
              names == StreamedNames(r.outcome) IN
          /\ Len(r.streamed) <= Len(names)
          /\ r.streamed = SubSeq(names, 1, Len(r.streamed))
          /\ GetConnectedClients = 0 => r.streamed = << >> /\ WroteNothing(t)
          /\ (r.stage = "returned" /\ GetConnectedClients > 0) =>
               /\ r.streamed = names
               /\ \A c \in Registered :
                    ~Closed(c) =>
                      /\ Len(WritesBy(t, c)) >= Len(names)
                      /\ LastTypes(t, c, Len(names)) = StreamedTypes(r.outcome)

\* a successful tools/call has returned with every connection registered and
\* open, each holding the three frames
C39_Witness ==
    \E t \in Callers :
        /\ CallToolAdmitted(t)
        /\ call[t].stage = "returned"
        /\ call[t].outcome = "ok"
        /\ Registered = Conns
        /\ \A c \in Conns : ~Closed(c) /\ Len(WritesBy(t, c)) = 3

====
